---- MODULE Spec2Model ----
(***************************************************************************)
(* State-machine model of app.py: the Flask RAG service.                   *)
(*                                                                         *)
(*   /upload  -> upload_files -> process_documents (rebuilds ./chroma_db)   *)
(*   /chat    -> chat -> retrieve_documents -> get_groq_response            *)
(*                                                                         *)
(* Shared state: the global document_store, the persist directory          *)
(* ./chroma_db, the uploads directory, the Redis lists that back           *)
(* RedisChatMessageHistory, and each client's Flask session cookie.        *)
(* Every request is a thread of the server; a request's steps are split at *)
(* the points where it touches shared state, so that steps of concurrent   *)
(* requests interleave.                                                    *)
(*                                                                         *)
(* Texts are sequences of tokens (strings), so that concatenation and      *)
(* strip() are computed.  Document text is represented by its length; a    *)
(* chunk by its source, page, start offset and length.                     *)
(***************************************************************************)
EXTENDS Integers, Sequences, FiniteSets, TLC

\* ------------------------------------------------------------------ bounds
MaxUploads == 2          \* upload requests issued in one behaviour
MaxChats == 2            \* chat requests issued in one behaviour

\* ------------------------------------------------------- program constants
chunk_size == 1000
chunk_overlap == 200
TopK == 4

None == "None"        \* a missing session id / remote address
NoStore == 0          \* document_store = None

Clients == {"c1", "c2"}          \* browsers, each with its own cookie jar
Uploaders == {"u1", "u2"}        \* server threads serving /upload

\* request.remote_addr of a chat request: an address, or None
Addrs == {"10.0.0.1"}
\* values of os.urandom(8).hex(), in the order they are drawn
RandIds == <<"r1", "r2", "r3", "r4">>
SessionIds == Addrs \cup {RandIds[i] : i \in 1..Len(RandIds)}

\* ------------------------------------------------------------ file universe
\* Names a client may upload: "", "a.txt", "b c.pdf", "bad.pdf", "none.pdf",
\* "x.exe".
\* filename.rsplit('.', 1)[1].lower() when '.' is in the name, else None
Extension(name) ==
    CASE name = "a.txt" -> "txt"
      [] name = "b c.pdf" -> "pdf"
      [] name = "bad.pdf" -> "pdf"
      [] name = "none.pdf" -> "pdf"
      [] name = "x.exe" -> "exe"
      [] OTHER -> None

ALLOWED_EXTENSIONS == {"pdf", "txt"}

allowed_file(filename) ==
    /\ Extension(filename) # None
    /\ Extension(filename) \in ALLOWED_EXTENSIONS

\* werkzeug's secure_filename: whitespace becomes an underscore
secure_filename(name) ==
    IF name = "b c.pdf" THEN "b_c.pdf" ELSE name

\* Path(file).suffix.lower() of a saved file
Suffix(saved) ==
    CASE saved = "a.txt" -> ".txt"
      [] saved \in {"b_c.pdf", "bad.pdf", "none.pdf"} -> ".pdf"
      [] OTHER -> ""

\* What the loader yields for a saved file: the text length of each document
\* (one per page for a PDF, one for a text file), or a failure to parse.
Readable(saved) == saved # "bad.pdf"

Pages(saved) ==
    CASE saved = "a.txt" -> <<4200>>
      [] saved = "b_c.pdf" -> <<300, 1000>>
      [] OTHER -> <<>>

\* The batches of one upload request (request.files.getlist('files')).
Batches ==
    { {}, {""}, {"x.exe"}, {"none.pdf"}, {"a.txt"}, {"b c.pdf", "x.exe"},
      {"a.txt", "bad.pdf"} }

\* ------------------------------------------------------------------ loader
\* PyPDFLoader(..).load() / TextLoader(..).load() of one file
LoadFile(saved) ==
    { [source |-> saved, page |-> i, len |-> Pages(saved)[i]] :
        i \in 1..Len(Pages(saved)) }

Loadable(dir) == {f \in dir : Suffix(f) \in {".pdf", ".txt"}}

\* load_documents_from_directory: no handler surrounds loader.load(), so the
\* first file that fails to parse raises out of the function.
load_documents_from_directory(dir) ==
    IF \E f \in Loadable(dir) : ~Readable(f)
    THEN [raised |-> TRUE, documents |-> {}]
    ELSE [raised |-> FALSE,
          documents |-> UNION {LoadFile(f) : f \in Loadable(dir)}]

\* ----------------------------------------------------------------- chunker
\* text_splitter: windows of chunk_size advanced by chunk_size - chunk_overlap;
\* the remainder is the last, possibly shorter, window.
RECURSIVE Windows(_, _)
Windows(start, len) ==
    IF len - start <= 0 THEN {}
    ELSE IF len - start <= chunk_size
         THEN {[start |-> start, len |-> len - start]}
         ELSE {[start |-> start, len |-> chunk_size]}
                \cup Windows(start + chunk_size - chunk_overlap, len)

split_documents(documents) ==
    UNION { { [source |-> d.source, page |-> d.page,
               start |-> w.start, len |-> w.len] : w \in Windows(0, d.len) }
            : d \in documents }

\* ------------------------------------------------------------------- texts
Whitespace == {" ", "\n", "\t"}

\* str.strip(): leading and trailing whitespace removed
RECURSIVE LStrip(_)
LStrip(s) ==
    IF s # <<>> /\ Head(s) \in Whitespace THEN LStrip(Tail(s)) ELSE s

RECURSIVE RStrip(_)
RStrip(s) ==
    IF s # <<>> /\ s[Len(s)] \in Whitespace
    THEN RStrip(SubSeq(s, 1, Len(s) - 1)) ELSE s

Strip(s) == RStrip(LStrip(s))

\* The question asked by the n-th chat request (each request its own text)
Questions == <<"q1", "q2", "q3", "q4", "q5", "q6">>

\* What the completion API returns (message.content), or the text of the
\* exception it raises (str(e), possibly empty)
GenContents == { <<" ", "blue", "\n">> }
GenErrors == { <<>> }
\* str(e) of an exception raised by the retriever
QueryErrors == { <<"boom">> }
\* time.process_time() differences
ElapsedTimes == {7}

NoDocumentsAnswer ==
    <<"No documents uploaded yet. Please upload documents first.">>

\* ------------------------------------------------------------------- state
VARIABLES
    document_store,   \* the global: None, or the collection the Chroma handle is bound to
    components,       \* embeddings / text_splitter have been initialised
    chroma_db,        \* the persist directory ./chroma_db
    uploads_dir,      \* saved file names in UPLOAD_FOLDER
    redis,            \* session id -> list of turns (RedisChatMessageHistory)
    cookie,           \* client -> session['session_id'] held in its cookie, or None
    chat,             \* client -> its current /chat request
    upload,           \* uploader thread -> its current /upload request
    nUploads,         \* upload requests issued so far
    nChats,           \* chat requests issued so far
    nRand,            \* os.urandom values drawn so far
    overlapped,       \* history: sessions that ever had two requests in flight at once
    exchanges,        \* history: session id -> the requests that ended on it, in order
    ingested          \* history: the chunks of the most recent upload answered 200

vars == <<document_store, components, chroma_db, uploads_dir, redis, cookie,
          chat, upload, nUploads, nChats, nRand, overlapped, exchanges,
          ingested>>

\* ./chroma_db does not exist
Absent == [exists |-> FALSE, coll |-> 0, chunks |-> {},
           building |-> {}, added |-> {}]

\* The collection on disk holds one whole generation: some ingestion has
\* written its chunks and none is between creating/opening it and writing.
Complete(db) == db.exists /\ db.building = {} /\ db.added # {}

IdleUpload ==
    [pc |-> "idle", seq |-> 0, uploaded_files |-> {}, final_documents |-> {},
     handle |-> 0, status |-> 0, raised |-> ""]

NoDocResponse == [kind |-> "none", answer |-> <<>>, response_time |-> 0,
                  context |-> <<>>]

NoResponse == [status |-> 0, answer |-> <<>>, response_time |-> 0,
               context |-> <<>>, chat_history |-> <<>>]

IdleChat ==
    [pc |-> "idle", req |-> 0, sid |-> None, input_prompt |-> <<>>,
     chat_history |-> <<>>, doc_response |-> NoDocResponse,
     seen |-> "n/a", answer |-> <<>>, gen_calls |-> 0, gen_raised |-> FALSE,
     prompt |-> <<>>,
     response |-> NoResponse]

Init ==
    /\ document_store = NoStore
    /\ components = FALSE
    /\ chroma_db = Absent
    /\ uploads_dir = {}
    /\ redis = [s \in SessionIds |-> <<>>]
    /\ cookie = [c \in Clients |-> None]
    /\ chat = [c \in Clients |-> IdleChat]
    /\ upload = [u \in Uploaders |-> IdleUpload]
    /\ nUploads = 0
    /\ nChats = 0
    /\ nRand = 0
    /\ overlapped = {}
    /\ exchanges = [s \in SessionIds |-> <<>>]
    /\ ingested = [seq |-> 0, chunks |-> {}]

\* ------------------------------------------------------------------ upload
UploadFrame ==
    UNCHANGED <<redis, cookie, chat, nChats, nRand, overlapped, exchanges>>

\* upload_files, lines 206-223: validate the request, empty UPLOAD_FOLDER,
\* save the allowed files.
UploadFiles(u, batch) ==
    /\ upload[u].pc \in {"idle", "done", "crashed"}
    /\ nUploads < MaxUploads
    /\ nUploads' = nUploads + 1
    /\ LET saved == {secure_filename(f) : f \in {g \in batch : allowed_file(g)}}
           new == [IdleUpload EXCEPT !.seq = nUploads + 1]
       IN  IF batch = {}
           THEN /\ upload' = [upload EXCEPT ![u] =
                      [new EXCEPT !.pc = "done", !.status = 400]]
                /\ UNCHANGED uploads_dir
           ELSE IF \A f \in batch : f = ""
           THEN /\ upload' = [upload EXCEPT ![u] =
                      [new EXCEPT !.pc = "done", !.status = 400]]
                /\ UNCHANGED uploads_dir
           ELSE /\ uploads_dir' = saved
                /\ IF saved = {}
                   THEN upload' = [upload EXCEPT ![u] =
                           [new EXCEPT !.pc = "done", !.status = 400]]
                   ELSE upload' = [upload EXCEPT ![u] =
                           [new EXCEPT !.pc = "process",
                                       !.uploaded_files = saved]]
    /\ UNCHANGED <<document_store, components, chroma_db, ingested>>
    /\ UploadFrame

\* ProcessLoad with the teardown of lines 111-112 moved above the check of
\* line 107: an ingestion that loads nothing removes the index.
ProcessLoad_TeardownFirst(u) ==
    /\ upload[u].pc = "process"
    /\ components' = TRUE
    /\ chroma_db' = Absent
    /\ LET loaded == load_documents_from_directory(uploads_dir)
       IN  IF loaded.raised
           THEN upload' = [upload EXCEPT ![u].pc = "crashed",
                                         ![u].raised = "loader"]
           ELSE IF loaded.documents = {}
           THEN upload' = [upload EXCEPT ![u].pc = "done", ![u].status = 500]
           ELSE upload' = [upload EXCEPT ![u].pc = "split",
                              ![u].final_documents = split_documents(loaded.documents)]
    /\ UNCHANGED <<document_store, uploads_dir, nUploads, ingested>>
    /\ UploadFrame

\* process_documents, lines 105-109: initialise the components, load the
\* directory, return False when nothing was loaded, else split into chunks.
ProcessLoad(u) ==
    /\ upload[u].pc = "process"
    /\ components' = TRUE
    /\ LET loaded == load_documents_from_directory(uploads_dir)
       IN  IF loaded.raised
           THEN upload' = [upload EXCEPT ![u].pc = "crashed",
                                         ![u].raised = "loader"]
           ELSE IF loaded.documents = {}
           THEN upload' = [upload EXCEPT ![u].pc = "done", ![u].status = 500]
           ELSE upload' = [upload EXCEPT ![u].pc = "split",
                              ![u].final_documents = split_documents(loaded.documents)]
    /\ UNCHANGED <<document_store, chroma_db, uploads_dir, nUploads, ingested>>
    /\ UploadFrame

\* ProcessRmtree that resets the conversations together with the index:
\* every session's list is deleted when the persist directory is.
ProcessRmtree_FlushSessions(u) ==
    /\ upload[u].pc = "split"
    /\ chroma_db' = IF chroma_db.exists THEN Absent ELSE chroma_db
    /\ upload' = [upload EXCEPT ![u].pc = "rmtree"]
    /\ redis' = [s \in SessionIds |-> <<>>]
    /\ UNCHANGED <<document_store, components, uploads_dir, nUploads, ingested>>
    /\ UNCHANGED <<cookie, chat, nChats, nRand, overlapped, exchanges>>

\* process_documents, lines 110-112: shutil.rmtree of the persist directory
ProcessRmtree(u) ==
    /\ upload[u].pc = "split"
    /\ chroma_db' = IF chroma_db.exists THEN Absent ELSE chroma_db
    /\ upload' = [upload EXCEPT ![u].pc = "rmtree"]
    /\ UNCHANGED <<document_store, components, uploads_dir, nUploads, ingested>>
    /\ UploadFrame

\* ProcessCreate binding the global as soon as the collection exists, before
\* any chunk is embedded and written.
ProcessCreate_BindEarly(u) ==
    /\ upload[u].pc = "rmtree"
    /\ IF chroma_db.exists
       THEN /\ chroma_db' = [chroma_db EXCEPT !.building = @ \cup {upload[u].seq}]
            /\ upload' = [upload EXCEPT ![u].pc = "created",
                                        ![u].handle = chroma_db.coll]
            /\ document_store' = chroma_db.coll
       ELSE /\ chroma_db' = [exists |-> TRUE, coll |-> upload[u].seq,
                             chunks |-> {}, building |-> {upload[u].seq},
                             added |-> {}]
            /\ upload' = [upload EXCEPT ![u].pc = "created",
                                        ![u].handle = upload[u].seq]
            /\ document_store' = upload[u].seq
    /\ UNCHANGED <<components, uploads_dir, nUploads, ingested>>
    /\ UploadFrame

\* Chroma.from_documents, first half: the client opens the persist directory
\* and get-or-creates the collection "rag_collection".
ProcessCreate(u) ==
    /\ upload[u].pc = "rmtree"
    /\ IF chroma_db.exists
       THEN /\ chroma_db' = [chroma_db EXCEPT !.building = @ \cup {upload[u].seq}]
            /\ upload' = [upload EXCEPT ![u].pc = "created",
                                        ![u].handle = chroma_db.coll]
       ELSE /\ chroma_db' = [exists |-> TRUE, coll |-> upload[u].seq,
                             chunks |-> {}, building |-> {upload[u].seq},
                             added |-> {}]
            /\ upload' = [upload EXCEPT ![u].pc = "created",
                                        ![u].handle = upload[u].seq]
    /\ UNCHANGED <<document_store, components, uploads_dir, nUploads, ingested>>
    /\ UploadFrame

\* Chroma.from_documents, second half: embed every chunk and write the
\* chunks to the collection.  The embedding call may raise; so does a write
\* to a collection that another ingestion has removed meanwhile.
ProcessAdd(u) ==
    /\ upload[u].pc = "created"
    /\ IF chroma_db.exists /\ chroma_db.coll = upload[u].handle
       THEN \/ /\ chroma_db' = [chroma_db EXCEPT
                      !.chunks = @ \cup upload[u].final_documents,
                      !.building = @ \ {upload[u].seq},
                      !.added = @ \cup {upload[u].seq}]
               /\ upload' = [upload EXCEPT ![u].pc = "added"]
            \/ /\ upload' = [upload EXCEPT ![u].pc = "crashed",
                                           ![u].raised = "embedding"]
               /\ UNCHANGED chroma_db
       ELSE /\ upload' = [upload EXCEPT ![u].pc = "crashed",
                                        ![u].raised = "collection"]
            /\ UNCHANGED chroma_db
    /\ UNCHANGED <<document_store, components, uploads_dir, nUploads, ingested>>
    /\ UploadFrame

\* process_documents, line 113 and 119, and upload_files, lines 224-229:
\* bind the global to the new handle and answer 200.
ProcessAssign(u) ==
    /\ upload[u].pc = "added"
    /\ document_store' = upload[u].handle
    /\ upload' = [upload EXCEPT ![u].pc = "done", ![u].status = 200]
    /\ ingested' = [seq |-> upload[u].seq, chunks |-> upload[u].final_documents]
    /\ UNCHANGED <<components, chroma_db, uploads_dir, nUploads>>
    /\ UploadFrame

\* --------------------------------------------------------------- retrieval
\* Insertion order of a chunk in the collection (ties in similarity are
\* broken by it; the embedding model is outside the program).
SourceRank(src) == IF src = "a.txt" THEN 1 ELSE 2

Before(a, b) ==
    \/ SourceRank(a.source) < SourceRank(b.source)
    \/ /\ a.source = b.source
       /\ \/ a.page < b.page
          \/ a.page = b.page /\ a.start < b.start

RECURSIVE Ranked(_)
Ranked(chunks) ==
    IF chunks = {} THEN <<>>
    ELSE LET first == CHOOSE a \in chunks : \A b \in chunks \ {a} : Before(a, b)
         IN  <<first>> \o Ranked(chunks \ {first})

\* retriever.invoke with search_kwargs k: the k best chunks, best first
SimilaritySearch(chunks, k) ==
    LET r == Ranked(chunks)
    IN  SubSeq(r, 1, IF Len(r) < k THEN Len(r) ELSE k)

\* "\n\n".join(page_content ...)
RECURSIVE Join(_)
Join(docs) ==
    IF docs = <<>> THEN <<>>
    ELSE IF Len(docs) = 1 THEN <<docs[1]>>
    ELSE <<docs[1], "\n\n">> \o Join(Tail(docs))

\* What a query through the global handle runs against.
IndexState ==
    IF ~chroma_db.exists THEN "torn_down"
    ELSE IF chroma_db.coll # document_store THEN "replaced"
    ELSE IF Complete(chroma_db) THEN "complete"
    ELSE "building"

\* RetrieveOutcomes without the check of line 174: the retriever is used
\* whether or not a handle exists.
RetrieveOutcomes_NoGuard ==
    { [kind |-> "answer",
       answer |-> <<"Error processing query: ">> \o e,
       response_time |-> 0, context |-> <<>>] : e \in QueryErrors }
    \cup
    { [kind |-> "context", answer |-> <<>>, response_time |-> t,
       context |-> IF chroma_db.exists /\ chroma_db.coll = document_store
                   THEN SimilaritySearch(chroma_db.chunks, TopK)
                   ELSE <<>>] : t \in ElapsedTimes }

\* The dicts retrieve_documents can return (lines 171-199) in the current
\* state.  With no handle: the fixed answer.  Otherwise the retriever either
\* raises (caught, line 194) or returns the k best chunks of the collection
\* the handle is bound to; a handle whose collection is gone raises or finds
\* nothing.
RetrieveOutcomes ==
    IF document_store = NoStore
    THEN { [kind |-> "answer", answer |-> NoDocumentsAnswer,
            response_time |-> 0, context |-> <<>>] }
    ELSE { [kind |-> "answer",
            answer |-> <<"Error processing query: ">> \o e,
            response_time |-> 0, context |-> <<>>] : e \in QueryErrors }
         \cup
         { [kind |-> "context", answer |-> <<>>, response_time |-> t,
            context |-> IF chroma_db.exists /\ chroma_db.coll = document_store
                        THEN SimilaritySearch(chroma_db.chunks, TopK)
                        ELSE <<>>] : t \in ElapsedTimes }

\* ------------------------------------------------------------------ prompt
\* get_groq_response, lines 135-139
RECURSIVE HistoryText(_)
HistoryText(chat_history) ==
    IF chat_history = <<>> THEN <<>>
    ELSE LET msg == Head(chat_history)
             sender == IF msg.type = "human" THEN "User" ELSE "AI"
         IN  <<sender, ": ">> \o msg.content \o <<"\n">>
               \o HistoryText(Tail(chat_history))

Instruction ==
    <<"Answer the question based on the provided context only.",
      "Please provide the most accurate response based on the question.">>

\* get_groq_response, lines 141-152
FormattedPrompt(prompt, context, chat_history) ==
    HistoryText(chat_history) \o Instruction
      \o <<"Context:">> \o context \o <<"Question: ">> \o prompt
      \o <<"Answer:">>

\* GenerationError without the fixed prefix: only str(e) is returned.
GenerationError_Bare(e) == e

\* get_groq_response, line 169: the text returned when the call raised
GenerationError(e) == <<"Error generating response: ">> \o e

\* get_groq_response, lines 153-169: what the call can produce: the
\* stripped completion, or the error text when anything in the try raised
GroqOutcomes ==
    {[raised |-> FALSE, answer |-> Strip(content)] : content \in GenContents}
      \cup {[raised |-> TRUE, answer |-> GenerationError(e)] : e \in GenErrors}

\* -------------------------------------------------------------------- chat
ChatFrame ==
    UNCHANGED <<document_store, components, chroma_db, uploads_dir, upload,
                nUploads, ingested>>

InFlight(c) ==
    chat[c].pc \in {"resolved", "loaded", "user_stored", "retrieved",
                    "generated", "ai_stored"}

\* [m.content for m in chat_history]
Contents(messages) == [i \in 1..Len(messages) |-> messages[i].content]

\* AddMessage writing at the head of the list instead of its end.
AddMessage_Front(history, type, content, req) ==
    <<[type |-> type, content |-> content, req |-> req]>> \o history

\* chat_memory.add_user_message / add_ai_message: the turn goes to the end
\* of the session's list (req records the request that wrote it)
AddMessage(history, type, content, req) ==
    Append(history, [type |-> type, content |-> content, req |-> req])

\* session.get('session_id'), else request.remote_addr or os.urandom(8).hex()
ResolveSession(held, addr, random) ==
    IF held # None THEN held
    ELSE IF addr # None THEN addr
    ELSE random

\* The entry of the history variable exchanges for a request that ended
Ended(c, how) ==
    [req |-> chat[c].req, user |-> chat[c].input_prompt,
     assistant |-> chat[c].answer, ended |-> how]

\* chat, lines 236-245: read the message, resolve the session id
ChatBegin(c, msg, addr) ==
    /\ chat[c].pc \in {"idle", "done", "crashed"}
    /\ nChats < MaxChats
    /\ nChats' = nChats + 1
    /\ LET new == [IdleChat EXCEPT !.req = nChats + 1, !.input_prompt = msg]
           sid == ResolveSession(cookie[c], addr, RandIds[nRand + 1])
       IN  IF msg = <<>>
           THEN /\ chat' = [chat EXCEPT ![c] =
                      [new EXCEPT !.pc = "done", !.response.status = 400]]
                /\ UNCHANGED <<nRand, overlapped>>
           ELSE /\ chat' = [chat EXCEPT ![c] =
                      [new EXCEPT !.pc = "resolved", !.sid = sid]]
                /\ nRand' = IF cookie[c] = None /\ addr = None
                            THEN nRand + 1 ELSE nRand
                /\ overlapped' =
                      IF \E d \in Clients \ {c} : InFlight(d) /\ chat[d].sid = sid
                      THEN overlapped \cup {sid} ELSE overlapped
    /\ UNCHANGED <<redis, cookie, exchanges>>
    /\ ChatFrame

\* ChatLoad through a windowed memory that trims the stored list to its
\* newest turn when it reads it.
ChatLoad_Trim(c) ==
    /\ chat[c].pc = "resolved"
    /\ chat' = [chat EXCEPT ![c].pc = "loaded",
                            ![c].chat_history = redis[chat[c].sid]]
    /\ redis' = [redis EXCEPT ![chat[c].sid] =
                    IF Len(@) > 1 THEN SubSeq(@, Len(@), Len(@)) ELSE @]
    /\ UNCHANGED <<cookie, nChats, nRand, overlapped, exchanges>>
    /\ ChatFrame

\* chat, lines 247-248: read the session's history
ChatLoad(c) ==
    /\ chat[c].pc = "resolved"
    /\ chat' = [chat EXCEPT ![c].pc = "loaded",
                            ![c].chat_history = redis[chat[c].sid]]
    /\ UNCHANGED <<redis, cookie, nChats, nRand, overlapped, exchanges>>
    /\ ChatFrame

\* ChatAddUser behind a per-session lock: the user turn is written only
\* when no other request of the session is between its user turn and its
\* response.
ChatAddUser_Locked(c) ==
    /\ chat[c].pc = "loaded"
    /\ ~\E d \in Clients \ {c} :
          /\ chat[d].sid = chat[c].sid
          /\ chat[d].pc \in {"user_stored", "retrieved", "generated", "ai_stored"}
    /\ redis' = [redis EXCEPT ![chat[c].sid] =
                    AddMessage(@, "human", chat[c].input_prompt, chat[c].req)]
    /\ chat' = [chat EXCEPT ![c].pc = "user_stored"]
    /\ UNCHANGED <<cookie, nChats, nRand, overlapped, exchanges>>
    /\ ChatFrame

\* chat, line 251: store the user message
ChatAddUser(c) ==
    /\ chat[c].pc = "loaded"
    /\ redis' = [redis EXCEPT ![chat[c].sid] =
                    AddMessage(@, "human", chat[c].input_prompt, chat[c].req)]
    /\ chat' = [chat EXCEPT ![c].pc = "user_stored"]
    /\ UNCHANGED <<cookie, nChats, nRand, overlapped, exchanges>>
    /\ ChatFrame

\* The response of the early return, lines 257-262
EarlyResponse(doc_response, chat_history) ==
    [status |-> 200, answer |-> doc_response.answer,
     response_time |-> doc_response.response_time,
     context |-> doc_response.context,
     chat_history |-> Contents(chat_history)]

\* ChatRetrieve returning early only for the no-documents answer: after a
\* query error the request goes on to the generation.
ChatRetrieve_ErrorFallsThrough(c) ==
    /\ chat[c].pc = "user_stored"
    /\ \E d \in RetrieveOutcomes :
         IF d.kind = "answer" /\ d.answer = NoDocumentsAnswer
         THEN /\ chat' = [chat EXCEPT
                    ![c].pc = "done",
                    ![c].doc_response = d,
                    ![c].seen = "none",
                    ![c].response = EarlyResponse(d, chat[c].chat_history)]
              /\ cookie' = [cookie EXCEPT ![c] = chat[c].sid]
              /\ exchanges' = [exchanges EXCEPT ![chat[c].sid] =
                                  Append(@, Ended(c, "early"))]
         ELSE /\ chat' = [chat EXCEPT
                    ![c].pc = "retrieved",
                    ![c].doc_response = d,
                    ![c].seen = IndexState]
              /\ UNCHANGED <<cookie, exchanges>>
    /\ UNCHANGED <<redis, nChats, nRand, overlapped>>
    /\ ChatFrame

\* chat, lines 254-262: retrieve_documents, and the early return when it
\* produced an answer itself
ChatRetrieve(c) ==
    /\ chat[c].pc = "user_stored"
    /\ \E d \in RetrieveOutcomes :
         IF d.kind = "answer"
         THEN /\ chat' = [chat EXCEPT
                    ![c].pc = "done",
                    ![c].doc_response = d,
                    ![c].seen = IF document_store = NoStore THEN "none"
                                ELSE IndexState,
                    ![c].response = EarlyResponse(d, chat[c].chat_history)]
              /\ cookie' = [cookie EXCEPT ![c] = chat[c].sid]
              /\ exchanges' = [exchanges EXCEPT ![chat[c].sid] =
                                  Append(@, Ended(c, "early"))]
         ELSE /\ chat' = [chat EXCEPT
                    ![c].pc = "retrieved",
                    ![c].doc_response = d,
                    ![c].seen = IndexState]
              /\ UNCHANGED <<cookie, exchanges>>
    /\ UNCHANGED <<redis, nChats, nRand, overlapped>>
    /\ ChatFrame

\* ChatGenerate handing over the history as stored now, read again after
\* the user turn was written, instead of the list read at line 248.
ChatGenerate_Reloaded(c) ==
    /\ chat[c].pc = "retrieved"
    /\ \E g \in GroqOutcomes :
         chat' = [chat EXCEPT
            ![c].pc = "generated",
            ![c].answer = g.answer,
            ![c].gen_raised = g.raised,
            ![c].gen_calls = @ + 1,
            ![c].prompt = FormattedPrompt(chat[c].input_prompt,
                                           Join(chat[c].doc_response.context),
                                           redis[chat[c].sid])]
    /\ UNCHANGED <<redis, cookie, nChats, nRand, overlapped, exchanges>>
    /\ ChatFrame

\* chat, lines 265-269: get_groq_response
ChatGenerate(c) ==
    /\ chat[c].pc = "retrieved"
    /\ \E g \in GroqOutcomes :
         chat' = [chat EXCEPT
            ![c].pc = "generated",
            ![c].answer = g.answer,
            ![c].gen_raised = g.raised,
            ![c].gen_calls = @ + 1,
            ![c].prompt = FormattedPrompt(chat[c].input_prompt,
                                           Join(chat[c].doc_response.context),
                                           chat[c].chat_history)]
    /\ UNCHANGED <<redis, cookie, nChats, nRand, overlapped, exchanges>>
    /\ ChatFrame

\* ChatAddAI with the write retried after it had succeeded: the answer is
\* stored twice.
ChatAddAI_Twice(c) ==
    /\ chat[c].pc = "generated"
    /\ redis' = [redis EXCEPT ![chat[c].sid] =
                    Append(Append(@, [type |-> "ai", content |-> chat[c].answer,
                                      req |-> chat[c].req]),
                           [type |-> "ai", content |-> chat[c].answer,
                            req |-> chat[c].req])]
    /\ chat' = [chat EXCEPT ![c].pc = "ai_stored"]
    /\ UNCHANGED <<cookie, nChats, nRand, overlapped, exchanges>>
    /\ ChatFrame

\* chat, line 272: store the answer
ChatAddAI(c) ==
    /\ chat[c].pc = "generated"
    /\ redis' = [redis EXCEPT ![chat[c].sid] =
                    AddMessage(@, "ai", chat[c].answer, chat[c].req)]
    /\ chat' = [chat EXCEPT ![c].pc = "ai_stored"]
    /\ UNCHANGED <<cookie, nChats, nRand, overlapped, exchanges>>
    /\ ChatFrame

\* The response of the normal return, lines 277-282
FinalResponse(answer, doc_response, updated_chat_history) ==
    [status |-> 200, answer |-> answer,
     response_time |-> doc_response.response_time,
     context |-> doc_response.context,
     chat_history |-> Contents(updated_chat_history)]

\* chat, lines 275-282: reload the history and respond
ChatRespond(c) ==
    /\ chat[c].pc = "ai_stored"
    /\ chat' = [chat EXCEPT
          ![c].pc = "done",
          ![c].response = FinalResponse(chat[c].answer, chat[c].doc_response,
                                        redis[chat[c].sid])]
    /\ cookie' = [cookie EXCEPT ![c] = chat[c].sid]
    /\ exchanges' = [exchanges EXCEPT ![chat[c].sid] =
                        Append(@, Ended(c, "answered"))]
    /\ UNCHANGED <<redis, nChats, nRand, overlapped>>
    /\ ChatFrame

\* A Redis command of the request raises (the store is unreachable): nothing
\* in chat catches it, the request ends in an unhandled exception.
\* Lines 248, 251, 272 and 275.
StoreFault(c) ==
    /\ chat[c].pc \in {"resolved", "loaded", "generated", "ai_stored"}
    /\ chat' = [chat EXCEPT ![c].pc = "crashed"]
    /\ exchanges' = [exchanges EXCEPT ![chat[c].sid] =
                        Append(@, Ended(c, "crashed"))]
    /\ UNCHANGED <<redis, cookie, nChats, nRand, overlapped>>
    /\ ChatFrame

\* ------------------------------------------------------------------ status
\* The JSON of the status handler, lines 292-297
StatusResponse(redis_ok) ==
    [documents_loaded |-> document_store # NoStore,
     redis_connected |-> redis_ok,
     upload_folder |-> "uploads",
     allowed_extensions |-> ALLOWED_EXTENSIONS]

\* status, lines 284-297: ping the store, read the global, answer; nothing
\* is written.
Status ==
    /\ \E redis_ok \in BOOLEAN :
          StatusResponse(redis_ok).documents_loaded = (document_store # NoStore)
    /\ UNCHANGED vars

\* ----------------------------------------------------------- specification
UploadStep(u) ==
    \/ \E batch \in Batches : UploadFiles(u, batch)
    \/ ProcessLoad(u)
    \/ ProcessRmtree(u)
    \/ ProcessCreate(u)
    \/ ProcessAdd(u)
    \/ ProcessAssign(u)

ChatStepOf(c) ==
    \/ \E msg \in {<<>>, <<Questions[nChats + 1]>>}, addr \in Addrs \cup {None} :
          ChatBegin(c, msg, addr)
    \/ ChatLoad(c)
    \/ ChatAddUser(c)
    \/ ChatRetrieve(c)
    \/ ChatGenerate(c)
    \/ ChatAddAI(c)
    \/ ChatRespond(c)

ChatStep == \E c \in Clients : ChatStepOf(c)

\* Uploads are issued one at a time (the callers do not race themselves);
\* chat requests of the clients run concurrently with them and each other.
Next == UploadStep("u1") \/ ChatStep \/ Status

Spec == Init /\ [][Next]_vars

\* The same server with a session store that can become unreachable.
NextStoreFault == Next \/ \E c \in Clients : StoreFault(c)

SpecStoreFault == Init /\ [][NextStoreFault]_vars

\* The same server with two uploads racing, queried by one client.
NextRace == UploadStep("u1") \/ UploadStep("u2") \/ ChatStepOf("c1") \/ Status

SpecRace == Init /\ [][NextRace]_vars

\* ------------------------------------------------------------------ claims
InFlightOn(s, r) ==
    \E c \in Clients : InFlight(c) /\ chat[c].sid = s /\ chat[c].req = r

\* C1: while an ingestion is in progress and a previous index exists, every
\* query runs against one whole index generation (the previous or the new
\* one), never against a removed, empty or partly built index.
C1_QuerySeesWholeGeneration ==
    \A c \in Clients : chat[c].seen \in {"n/a", "none", "complete"}

\* C2: when an ingestion fails after a previous index was built, that index
\* is still on disk, whole, and is the one the handle queries.
C2_FailedIngestionKeepsIndex ==
    \A u \in Uploaders :
        (upload[u].pc = "crashed" /\ document_store # NoStore)
            => IndexState = "complete"

NoDocuments(dir) ==
    LET loaded == load_documents_from_directory(dir)
    IN  ~loaded.raised /\ loaded.documents = {}

\* C3: an ingestion that loads zero documents answers with the failure
\* status and changes neither the handle nor the stored index, so queries
\* get the same results as before.
C3_NoDocumentsLeavesIndex ==
    [][\A u \in Uploaders :
          (upload[u].pc = "process" /\ upload'[u].pc # "process"
             /\ NoDocuments(uploads_dir))
            => /\ upload'[u].pc = "done"
               /\ upload'[u].status = 500
               /\ document_store' = document_store
               /\ chroma_db' = chroma_db
               /\ RetrieveOutcomes' = RetrieveOutcomes]_vars

C3_Witness ==
    \E u \in Uploaders :
        /\ upload[u].pc = "done"
        /\ upload[u].status = 500
        /\ document_store # NoStore
        /\ IndexState = "complete"
        /\ chroma_db.chunks # {}

ReadableDocuments(dir) ==
    UNION {LoadFile(f) : f \in {g \in Loadable(dir) : Readable(g)}}

\* C4: a file that fails to load is skipped: whenever the directory holds a
\* readable file with content, the load step goes on to chunk exactly the
\* documents of the readable files.
C4_UnreadableFileSkipped ==
    [][\A u \in Uploaders :
          (upload[u].pc = "process" /\ upload'[u].pc # "process"
             /\ ReadableDocuments(uploads_dir) # {})
            => /\ upload'[u].pc = "split"
               /\ upload'[u].final_documents =
                     split_documents(ReadableDocuments(uploads_dir))]_vars

TurnsOf(s, r) == {i \in 1..Len(redis[s]) : redis[s][i].req = r}

\* C5: a chat request with a non-empty message served while no index was
\* ever built ends with the fixed no-documents answer, response_time 0 and
\* an empty context, without a generation call, and has written exactly one
\* turn, its user turn.
C5_NoDocumentsShortCircuit ==
    \A c \in Clients :
        document_store = NoStore =>
            /\ chat[c].pc \notin {"retrieved", "generated", "ai_stored"}
            /\ (chat[c].pc = "done" /\ chat[c].input_prompt # <<>>) =>
                  /\ chat[c].response.status = 200
                  /\ chat[c].response.answer = NoDocumentsAnswer
                  /\ chat[c].response.response_time = 0
                  /\ chat[c].response.context = <<>>
                  /\ chat[c].gen_calls = 0
                  /\ Cardinality(TurnsOf(chat[c].sid, chat[c].req)) = 1
                  /\ \A i \in TurnsOf(chat[c].sid, chat[c].req) :
                        /\ redis[chat[c].sid][i].type = "human"
                        /\ redis[chat[c].sid][i].content = chat[c].input_prompt

C5_Witness ==
    \E c \in Clients :
        /\ chat[c].pc = "done"
        /\ chat[c].input_prompt # <<>>
        /\ document_store = NoStore
        /\ chat[c].seen = "none"

\* C6: when the generation call fails, the request goes on to a normal
\* response whose answer is a non-empty error text, and that very text is
\* stored as the assistant turn and shown by the history read that follows.
C6_GenerationFailureRecorded ==
    \A c \in Clients :
        chat[c].gen_raised =>
            /\ chat[c].pc \in {"generated", "ai_stored", "done"}
            /\ chat[c].answer # <<>>
            /\ Head(chat[c].answer) = "Error generating response: "
            /\ chat[c].pc \in {"ai_stored", "done"} =>
                  \E i \in 1..Len(redis[chat[c].sid]) :
                      redis[chat[c].sid][i] =
                          [type |-> "ai", content |-> chat[c].answer,
                           req |-> chat[c].req]
            /\ chat[c].pc = "done" =>
                  /\ chat[c].response.status = 200
                  /\ chat[c].response.answer = chat[c].answer
                  /\ \E i \in 1..Len(chat[c].response.chat_history) :
                        chat[c].response.chat_history[i] = chat[c].answer

C6_Witness ==
    \E c \in Clients : chat[c].gen_raised /\ chat[c].pc = "done"

\* C7 as stated: on a session that never had two requests in flight at
\* once, the turns alternate user, assistant, ... from a user turn, a last
\* unanswered user turn belongs to a request in flight, and each assistant
\* turn follows the user turn of its exchange.
C7_StrictAlternation ==
    \A s \in SessionIds :
        s \notin overlapped =>
            LET h == redis[s]
            IN  /\ \A i \in 1..Len(h) :
                      h[i].type = IF i % 2 = 1 THEN "human" ELSE "ai"
                /\ \A i \in 1..Len(h) :
                      h[i].type = "ai" => i > 1 /\ h[i - 1].req = h[i].req
                /\ Len(h) % 2 = 1 => InFlightOn(s, h[Len(h)].req)

EndedUnanswered(s, r) ==
    \E j \in 1..Len(exchanges[s]) :
        exchanges[s][j].req = r /\ exchanges[s][j].ended # "answered"

\* C7 as amended: on such a session every assistant turn directly follows
\* the user turn of its own exchange, and a user turn is without its
\* assistant turn only while its request is in flight or after that request
\* ended without recording one (the early return of lines 255-262, or an
\* unhandled failure).
C7_AssistantFollowsItsUser ==
    \A s \in SessionIds :
        s \notin overlapped =>
            LET h == redis[s]
            IN  /\ \A i \in 1..Len(h) :
                      h[i].type = "ai" =>
                          /\ i > 1
                          /\ h[i - 1].type = "human"
                          /\ h[i - 1].req = h[i].req
                /\ \A i \in 1..Len(h) :
                      (h[i].type = "human"
                         /\ (i = Len(h) \/ h[i + 1].type # "ai"))
                        => InFlightOn(s, h[i].req) \/ EndedUnanswered(s, h[i].req)

C7_Witness ==
    \E s \in SessionIds :
        /\ s \notin overlapped
        /\ Len(redis[s]) = 3
        /\ redis[s][1].type = "human"
        /\ redis[s][2].type = "human"
        /\ redis[s][3].type = "ai"

\* C8: on every terminal branch the history field of the response is the
\* session's stored turn sequence at the moment of the response.
C8_ResponseCarriesUpdatedHistory ==
    [][\A c \in Clients :
          (chat'[c].pc = "done" /\ chat'[c].response.status = 200
             /\ (chat[c].pc # "done" \/ chat[c].req # chat'[c].req))
            => chat'[c].response.chat_history
                  = Contents(redis'[chat'[c].sid])]_vars

\* C9: a chat request that meets an unreachable session store still ends in
\* a response; no request ends in an unhandled error.
C9_StoreFailureDegrades ==
    \A c \in Clients : chat[c].pc # "crashed"

RECURSIVE Transcript(_)
Transcript(log) ==
    IF log = <<>> THEN <<>>
    ELSE <<[type |-> "human", content |-> Head(log).user],
           [type |-> "ai", content |-> Head(log).assistant]>>
           \o Transcript(Tail(log))

ReadBack(s) ==
    [i \in 1..Len(redis[s]) |->
        [type |-> redis[s][i].type, content |-> redis[s][i].content]]

AllAnswered(s) ==
    /\ \A j \in 1..Len(exchanges[s]) : exchanges[s][j].ended = "answered"
    /\ ~\E c \in Clients : InFlight(c) /\ chat[c].sid = s

\* C10: on a session served one request at a time, once exchanges 1..n have
\* all been answered the stored history reads u1, a1, ..., un, an.
C10_ReadBackInAppendOrder ==
    \A s \in SessionIds :
        (s \notin overlapped /\ AllAnswered(s))
            => ReadBack(s) = Transcript(exchanges[s])

C10_Witness ==
    \E s \in SessionIds :
        /\ s \notin overlapped
        /\ AllAnswered(s)
        /\ Len(exchanges[s]) = 2
        /\ Len(redis[s]) = 4

\* No ingestion is between its load step and its return.
Quiescent ==
    \A u \in Uploaders : upload[u].pc \in {"idle", "done", "crashed"}

\* The chunks a query through the global handle can be answered from.
QueryableChunks ==
    IF document_store # NoStore /\ chroma_db.exists
          /\ chroma_db.coll = document_store
    THEN chroma_db.chunks
    ELSE {}

\* C11: after any sequence of uploads issued one after the other, the
\* queryable index holds exactly the chunks of the most recent upload that
\* succeeded.
C11_IndexHoldsLastSuccessfulUpload ==
    (Quiescent /\ ingested.seq # 0) => QueryableChunks = ingested.chunks

\* Both upload threads have returned 200.
BothSucceeded ==
    \A u \in Uploaders : upload[u].pc = "done" /\ upload[u].status = 200

\* C12: once two ingestions that ran concurrently have both succeeded, the
\* queryable index holds exactly the chunk set of the one that completed
\* last: none of the other's chunks, all of its own.
C12_LastRebuildWins ==
    BothSucceeded => QueryableChunks = ingested.chunks

\* The identifiers os.urandom can have produced
FreshIds == {RandIds[i] : i \in 1..Len(RandIds)}

\* C13: the session id of a chat request is the id the client holds or a
\* fresh random identifier (so every id in use was minted at random), and
\* two distinct clients, which arrive holding no id, are never resolved to
\* the same session id.
C13_SessionIdHeldOrFresh ==
    /\ \A c \in Clients : chat[c].sid # None => chat[c].sid \in FreshIds
    /\ \A c, d \in Clients :
          (c # d /\ chat[c].sid # None) => chat[c].sid # chat[d].sid

\* The next step of the request of client c, whatever its position
RequestStep(c) ==
    \/ ChatLoad(c)
    \/ ChatAddUser(c)
    \/ ChatRetrieve(c)
    \/ ChatGenerate(c)
    \/ ChatAddAI(c)
    \/ ChatRespond(c)

\* C14: nothing serialises two chat requests of one session: while two are
\* in flight on the same session, each can take its next step wherever the
\* other stands.
C14_NoSerialisation ==
    \A c \in Clients : \A d \in Clients \ {c} :
        (InFlight(c) /\ InFlight(d) /\ chat[c].sid = chat[d].sid)
            => ENABLED RequestStep(c)

\* The stored history reads u1, u2, a1, a2 (or a2 before a1), and the
\* prompt history of one of the two requests held the other's user turn
\* without its answer.
C14_Witness ==
    \E s \in SessionIds :
        LET h == redis[s]
        IN  /\ Len(h) = 4
            /\ h[1].type = "human" /\ h[2].type = "human"
            /\ h[3].type = "ai" /\ h[4].type = "ai"
            /\ h[1].req # h[2].req
            /\ {h[3].req, h[4].req} = {h[1].req, h[2].req}
            /\ \E c \in Clients :
                  /\ chat[c].sid = s
                  /\ chat[c].gen_calls = 1
                  /\ chat[c].prompt = FormattedPrompt(chat[c].input_prompt,
                         Join(chat[c].doc_response.context), chat[c].chat_history)
                  /\ \E i \in 1..Len(chat[c].chat_history) :
                        /\ chat[c].chat_history[i].type = "human"
                        /\ chat[c].chat_history[i].req # chat[c].req
                  /\ \A i \in 1..Len(chat[c].chat_history) :
                        chat[c].chat_history[i].type # "ai"

IsPrefix(a, b) == Len(a) <= Len(b) /\ SubSeq(b, 1, Len(a)) = a

\* C15: session history is append-only: every step of a chat request, an
\* upload or a status check leaves each session's turn sequence a prefix of
\* what it is afterwards; no turn is removed, rewritten or reordered.
C15_HistoryAppendOnly ==
    [][\A s \in SessionIds : IsPrefix(redis[s], redis'[s])]_vars

C15_Witness ==
    \E s \in SessionIds :
        /\ Len(redis[s]) = 4
        /\ ingested.seq = MaxUploads
        /\ \A c \in Clients : chat[c].pc = "done" /\ chat[c].sid = s

\* The response of the no-documents outcome (lines 174-179 and 257-262)
NotIndexed(r) ==
    /\ r.status = 200
    /\ r.answer = NoDocumentsAnswer
    /\ r.response_time = 0
    /\ r.context = <<>>

\* C16: the retrieval of a chat request ends in the no-documents outcome
\* exactly when no ingestion has succeeded so far; until one has, it never
\* goes on to a generation or ends otherwise, and the handle is unbound
\* exactly until the first success.
C16_NotIndexedIffNoSuccess ==
    [][/\ (ingested.seq = 0) = (document_store = NoStore)
       /\ \A c \in Clients :
            (chat[c].pc = "user_stored" /\ chat'[c].pc # "user_stored")
              => ((ingested.seq = 0)
                    = (chat'[c].pc = "done" /\ NotIndexed(chat'[c].response)))]_vars

C16_Witness ==
    \E c \in Clients : \E d \in Clients \ {c} :
        /\ chat[c].pc = "done"
        /\ NotIndexed(chat[c].response)
        /\ chat[d].doc_response.kind = "context"
        /\ chat[d].req > chat[c].req
        /\ ingested.seq = MaxUploads
        /\ upload["u1"].pc = "done"

\* The turns of the session stored in front of the user turn of the request
\* of client c (the list only grows, so these are the turns stored before
\* that turn was appended).
StoredBefore(c) ==
    LET h == redis[chat[c].sid]
        i == CHOOSE k \in 1..Len(h) :
                 h[k].req = chat[c].req /\ h[k].type = "human"
    IN  SubSeq(h, 1, i - 1)

RECURSIVE Rendered(_)
Rendered(turns) ==
    IF turns = <<>> THEN <<>>
    ELSE <<IF Head(turns).type = "human" THEN "User" ELSE "AI", ": ">>
            \o Head(turns).content \o <<"\n">> \o Rendered(Tail(turns))

\* The prompt of the request of client c with the given turns as history
ExpectedPrompt(c, turns) ==
    Rendered(turns)
      \o <<"Answer the question based on the provided context only.",
           "Please provide the most accurate response based on the question.">>
      \o <<"Context:">> \o Join(chat[c].doc_response.context)
      \o <<"Question: ">> \o chat[c].input_prompt \o <<"Answer:">>

\* C18 as stated: the prompt handed to the generation is history,
\* instruction block, context, query, in that order, the history being the
\* session's turns stored before the request's user turn was appended, each
\* rendered as User: or AI:, and the query only in the question position.
C18_PromptHistoryStoredBefore ==
    \A c \in Clients :
        chat[c].gen_calls > 0
            => chat[c].prompt = ExpectedPrompt(c, StoredBefore(c))

\* C18 as amended: the same, for a request of a session that never had two
\* requests in flight at once.
C18_PromptHistoryUnoverlapped ==
    \A c \in Clients :
        (chat[c].gen_calls > 0 /\ chat[c].sid \notin overlapped)
            => chat[c].prompt = ExpectedPrompt(c, StoredBefore(c))

C18_Witness ==
    \E c \in Clients :
        /\ chat[c].gen_calls > 0
        /\ chat[c].sid \notin overlapped
        /\ Len(StoredBefore(c)) = 2
        /\ StoredBefore(c)[1].type = "human"
        /\ StoredBefore(c)[2].type = "ai"
        /\ chat[c].doc_response.context # <<>>

\* C19: a step of a chat request changes no turn sequence but that of the
\* request's own session and leaves the index, handle and content, as it
\* is; a step of an upload changes no session's turn sequence.
C19_FrameOfChatAndUpload ==
    [][/\ \A c \in Clients :
            chat'[c] # chat[c]
              => /\ \A s \in SessionIds \ {chat'[c].sid} : redis'[s] = redis[s]
                 /\ document_store' = document_store
                 /\ chroma_db' = chroma_db
       /\ \A u \in Uploaders :
            upload'[u] # upload[u] => redis' = redis]_vars

C19_Witness ==
    \E a \in SessionIds : \E b \in SessionIds \ {a} :
        /\ redis[a] # <<>>
        /\ redis[b] # <<>>
        /\ \E c \in Clients :
              chat[c].sid = a /\ chat[c].pc = "done" /\ NotIndexed(chat[c].response)
        /\ \E i \in 1..Len(redis[b]) : redis[b][i].type = "ai"
        /\ ingested.seq # 0

\* The retrieval of the request of client c raised (lines 194-199)
QueryFailed(c) ==
    /\ chat[c].doc_response.kind = "answer"
    /\ chat[c].doc_response.answer # NoDocumentsAnswer

\* C20: when the handle is bound and the similarity query raises, the
\* request ends with an answer that describes the query error,
\* response_time 0 and an empty context, without a generation call and
\* without an assistant turn; its user turn stays in the session's history.
C20_QueryErrorEndsRequest ==
    \A c \in Clients :
        QueryFailed(c) =>
            /\ chat[c].pc = "done"
            /\ chat[c].response.status = 200
            /\ \E e \in QueryErrors :
                  chat[c].response.answer = <<"Error processing query: ">> \o e
            /\ chat[c].response.response_time = 0
            /\ chat[c].response.context = <<>>
            /\ chat[c].gen_calls = 0
            /\ chat[c].seen # "none"
            /\ Cardinality(TurnsOf(chat[c].sid, chat[c].req)) = 1
            /\ \A i \in TurnsOf(chat[c].sid, chat[c].req) :
                  /\ redis[chat[c].sid][i].type = "human"
                  /\ redis[chat[c].sid][i].content = chat[c].input_prompt

C20_Witness ==
    \E c \in Clients :
        /\ QueryFailed(c)
        /\ chat[c].seen = "complete"
        /\ \E d \in Clients \ {c} :
              chat[d].sid = chat[c].sid /\ chat[d].req > chat[c].req
                /\ chat[d].pc = "done"

====
